---- MODULE Spec2Model ----
(***************************************************************************)
(* A model of ReplServer (src/src/ReplServer.cpp): the replication loop    *)
(* replicate(), the broadcast scan queueNewPlots(), the ingestion          *)
(* addReplDronePlots(), shutdown(), and the reconciliation pass            *)
(* eventual_consistency() with get_node_count, generate_offsets,           *)
(* offset_aux and correct_timestamps.                                      *)
(*                                                                         *)
(* DronePlot, DronePlotDB and QueueMgr are not part of the sources at      *)
(* hand; the few operations of theirs that the server calls are modelled   *)
(* from the specification's description of their interface.               *)
(***************************************************************************)
EXTENDS Integers, Sequences, FiniteSets, TLC

VARIABLES
    pc,            \* position of the thread running replicate()
    shutdownFlag,  \* ReplServer::_shutdown
    now,           \* time(NULL), in seconds since the server was constructed
    start_time,    \* ReplServer::_start_time, on the same scale as now
    time_mult,     \* ReplServer::_time_mult, in halves (2 is 1.0)
    last_repl,     \* ReplServer::_last_repl
    plotdb,        \* ReplServer::_plotdb, the list of plots in store order
    inbound,       \* payloads QueueMgr holds for pop()
    outbound,      \* payloads handed to QueueMgr::sendToAll, in order
    serialSize,    \* number of cells DronePlot::serialize appends per plot
    nextId,        \* identity given to the next plot added to the store
    arrivals,      \* number of payloads received from peers so far
    tracker,       \* eventual_consistency's local vector tracker
    offsets,       \* eventual_consistency's local vector offsets
    db0,           \* the store as it was when eventual_consistency was called
    removed,       \* the plots erased by offset_aux, one entry per call
    ecCalls,       \* number of calls of eventual_consistency
    ub,            \* out-of-range vector reads performed so far
    clearedLog,    \* identities of the plots whose DBFLAG_NEW was cleared
    lastCount,     \* value returned by the last queueNewPlots()
    lastScanAt,    \* adjusted time read by the last interval test that
                   \* passed, -1 before the first
    err            \* the exception that ended replicate(), "" when none

vars == <<pc, shutdownFlag, now, start_time, time_mult, last_repl, plotdb,
          inbound, outbound, serialSize, nextId, arrivals, tracker, offsets,
          db0, removed, ecCalls, ub, clearedLog, lastCount, lastScanAt, err>>

loopVars == <<shutdownFlag, now, start_time, time_mult, last_repl, inbound,
              outbound, serialSize, nextId, arrivals, clearedLog, lastCount,
              lastScanAt, err>>

ecVars == <<tracker, offsets, db0, removed, ecCalls>>

(***************************************************************************)
(* Bounds of the model.                                                    *)
(***************************************************************************)
MaxStore == 3       \* longest store reconciliation is started from
DupStore == 5       \* length of the stores of the duplicate-bound scenario
MaxCapture == 2     \* store length up to which the sensor adds plots
MaxArrivals == 1    \* payloads received from peers
MaxNow == 42        \* last second of the wall clock
MaxRecords == 2     \* plots in the longest payload of the ingestion scenario

TickSteps == {20, 21}
StartTimes == {-21, 0}
TimeMults == {0, 1, 2, 4}

NodeIds == {1, 2, 3}
Timestamps == {100, 150}
Coords == {<<10, 20>>, <<10, 21>>, <<11, 20>>}

(***************************************************************************)
(* DronePlot and DronePlotDB.                                              *)
(***************************************************************************)
DBFLAG_NEW == 1

Plot(id, drone_id, node_id, timestamp, latitude, longitude, flags) ==
    [id |-> id, drone_id |-> drone_id, node_id |-> node_id,
     timestamp |-> timestamp, latitude |-> latitude,
     longitude |-> longitude, flags |-> flags]

isFlagSet(p, f) == (p.flags \div f) % 2 = 1

clrFlags(p, f) == IF isFlagSet(p, f) THEN [p EXCEPT !.flags = @ - f] ELSE p

\* DronePlotDB::addPlot appends a plot with DBFLAG_NEW set.
addPlot(db, id, drone_id, node_id, timestamp, latitude, longitude) ==
    Append(db, Plot(id, drone_id, node_id, timestamp, latitude, longitude,
                    DBFLAG_NEW))

\* DronePlotDB::erase removes the plot an iterator points at.
erase(db, j) == SubSeq(db, 1, j - 1) \o SubSeq(db, j + 1, Len(db))

\* The store left in the order it has.
sortByTime_Skipped(db) == db

\* DronePlotDB::sortByTime: std::list::sort by timestamp, which is stable.
RECURSIVE sortByTime(_)
sortByTime(db) ==
    IF db = <<>> THEN <<>>
    ELSE LET h == Head(db)
             rest == sortByTime(Tail(db))
         IN  SelectSeq(rest, LAMBDA x : x.timestamp < h.timestamp)
             \o <<h>>
             \o SelectSeq(rest, LAMBDA x : x.timestamp >= h.timestamp)

Range(s) == {s[i] : i \in 1..Len(s)}

\* Conversion of a time_t difference to int: the identity on every difference
\* of two timestamps of the model, all of which lie far inside the int range.
ToInt(x) == x

(***************************************************************************)
(* Reconciliation.                                                         *)
(***************************************************************************)
\* get_node_count: node ids in order of first appearance.
RECURSIVE get_node_count(_, _)
get_node_count(db, trk) ==
    IF db = <<>> THEN trk
    ELSE get_node_count(Tail(db),
                        IF Head(db).node_id \in Range(trk) THEN trk
                        ELSE Append(trk, Head(db).node_id))

\* tracker left in the order get_node_count built it.
std_sort_Skipped(s) == s

\* std::sort(tracker.begin(), tracker.end())
RECURSIVE std_sort(_)
std_sort(s) ==
    IF s = <<>> THEN <<>>
    ELSE LET h == Head(s)
             rest == std_sort(Tail(s))
         IN  SelectSeq(rest, LAMBDA x : x < h) \o <<h>>
             \o SelectSeq(rest, LAMBDA x : x >= h)

\* The test without the comparison of the longitudes.
IsDuplicateOf_LatitudeOnly(db, i, j, largest_id) ==
    /\ db[j].latitude = db[i].latitude
    /\ db[j].node_id = largest_id

\* The test of offset_aux's inner loop on the plots at dbitr (i) and dbitr2 (j).
IsDuplicateOf(db, i, j, largest_id) ==
    /\ db[j].latitude = db[i].latitude
    /\ db[j].longitude = db[i].longitude
    /\ db[j].node_id = largest_id

\* The inner loop returning the last duplicate of the plot at i instead of
\* the first.
InnerScan_LastMatch(db, i, j, largest_id) ==
    LET hits == {k \in j..Len(db) : IsDuplicateOf(db, i, k, largest_id)}
    IN  IF hits = {} THEN 0 ELSE CHOOSE k \in hits : \A h \in hits : h <= k

\* offset_aux's inner loop: the first position from j on that holds a
\* duplicate of the plot at i, or 0 when the loop reaches the end.
RECURSIVE InnerScan(_, _, _, _)
InnerScan(db, i, j, largest_id) ==
    IF j > Len(db) THEN 0
    ELSE IF IsDuplicateOf(db, i, j, largest_id) THEN j
    ELSE InnerScan(db, i, j + 1, largest_id)

\* offset_aux's outer loop from position i on.
RECURSIVE OuterScan(_, _, _, _)
OuterScan(db, i, input_id, largest_id) ==
    IF i > Len(db) THEN [offset |-> 0, db |-> db, erased |-> <<>>]
    ELSE IF db[i].node_id = input_id
    THEN LET j == InnerScan(db, i, i + 1, largest_id)
         IN  IF j # 0
             THEN [offset |-> ToInt(db[j].timestamp - db[i].timestamp),
                   db |-> erase(db, j),
                   erased |-> <<db[j]>>]
             ELSE OuterScan(db, i + 1, input_id, largest_id)
    ELSE OuterScan(db, i + 1, input_id, largest_id)

offset_aux(db, input_id, largest_id) == OuterScan(db, 1, input_id, largest_id)

\* generate_offsets' loop over tracker from position k on.
RECURSIVE GenerateLoop(_, _, _, _, _, _)
GenerateLoop(db, trk, k, largest_id, offs, rem) ==
    IF k > Len(trk) \/ trk[k] = largest_id
    THEN [db |-> db, offsets |-> offs, removed |-> rem]
    ELSE LET r == offset_aux(db, trk[k], largest_id)
         IN  GenerateLoop(r.db, trk, k + 1, largest_id,
                          Append(offs, r.offset), Append(rem, r.erased))

generate_offsets(db, trk, largest_id) ==
    GenerateLoop(db, trk, 1, largest_id, <<>>, <<>>)

\* correct_timestamps' inner loop: the 0-based index of node_id in tracker,
\* tracker.size() when it is not there.
RECURSIVE TrackerIndex(_, _, _)
TrackerIndex(trk, node_id, i) ==
    IF i >= Len(trk) \/ trk[i + 1] = node_id THEN i
    ELSE TrackerIndex(trk, node_id, i + 1)

\* The plots correct_timestamps reads offsets[i] for, with that i.
OffsetReads(db, trk, largest_id) ==
    {TrackerIndex(trk, db[k].node_id, 0) :
        k \in {n \in 1..Len(db) : db[n].node_id # largest_id}}

\* The offset subtracted instead of added.
correct_timestamps_Subtracts(db, offs, trk, largest_id) ==
    [k \in 1..Len(db) |->
        IF db[k].node_id # largest_id
        THEN [db[k] EXCEPT !.timestamp =
                 @ - offs[TrackerIndex(trk, db[k].node_id, 0) + 1]]
        ELSE db[k]]

correct_timestamps(db, offs, trk, largest_id) ==
    [k \in 1..Len(db) |->
        IF db[k].node_id # largest_id
        THEN [db[k] EXCEPT !.timestamp =
                 @ + offs[TrackerIndex(trk, db[k].node_id, 0) + 1]]
        ELSE db[k]]

\* What a read of tracker[tracker.size()-1] on an empty vector may yield.
GarbageIds == {0, 2147483647}

(***************************************************************************)
(* The steps of eventual_consistency.                                      *)
(***************************************************************************)
\* eventual_consistency is entered: _plotdb.sortByTime()
EcSort ==
    /\ pc = "ec"
    /\ ecCalls' = ecCalls + 1
    /\ db0' = plotdb
    /\ plotdb' = sortByTime(plotdb)
    /\ pc' = "ec_count"
    /\ UNCHANGED <<tracker, offsets, removed, ub>>
    /\ UNCHANGED loopVars

\* get_node_count(tracker); std::sort(tracker)
EcNodeCount ==
    /\ pc = "ec_count"
    /\ tracker' = std_sort(get_node_count(plotdb, <<>>))
    /\ pc' = "ec_offsets"
    /\ UNCHANGED <<plotdb, offsets, removed, db0, ecCalls, ub>>
    /\ UNCHANGED loopVars

\* generate_offsets(offsets, tracker)
EcGenerateOffsets ==
    /\ pc = "ec_offsets"
    /\ \/ /\ tracker # <<>>
          /\ LET r == generate_offsets(plotdb, tracker, tracker[Len(tracker)])
             IN  /\ plotdb' = r.db
                 /\ offsets' = r.offsets
                 /\ removed' = r.removed
          /\ pc' = "ec_correct"
          /\ ub' = ub
       \/ \* tracker[tracker.size()-1] on an empty vector: the read faults
          /\ tracker = <<>>
          /\ ub' = ub \cup {"generate_offsets: tracker[size-1]"}
          /\ pc' = "crashed"
          /\ UNCHANGED <<plotdb, offsets, removed>>
       \/ \* ... or yields whatever the memory holds
          /\ tracker = <<>>
          /\ ub' = ub \cup {"generate_offsets: tracker[size-1]"}
          /\ \E g \in GarbageIds :
                LET r == generate_offsets(plotdb, tracker, g)
                IN  /\ plotdb' = r.db
                    /\ offsets' = r.offsets
                    /\ removed' = r.removed
          /\ pc' = "ec_correct"
    /\ UNCHANGED <<tracker, db0, ecCalls>>
    /\ UNCHANGED loopVars

\* correct_timestamps(offsets, tracker), then eventual_consistency returns
EcCorrectTimestamps ==
    /\ pc = "ec_correct"
    /\ \/ /\ tracker # <<>>
          /\ LET largest_id == tracker[Len(tracker)]
             IN  /\ \A i \in OffsetReads(plotdb, tracker, largest_id) :
                        i < Len(offsets)
                 /\ plotdb' = correct_timestamps(plotdb, offsets, tracker,
                                                 largest_id)
          /\ pc' = "returned"
          /\ ub' = ub
       \/ /\ tracker = <<>>
          /\ ub' = ub \cup {"correct_timestamps: tracker[size-1]"}
          /\ pc' = "crashed"
          /\ plotdb' = plotdb
       \/ /\ tracker = <<>>
          /\ ub' = ub \cup {"correct_timestamps: tracker[size-1]"}
          /\ \E g \in GarbageIds :
                /\ \A i \in OffsetReads(plotdb, tracker, g) : i < Len(offsets)
                /\ plotdb' = correct_timestamps(plotdb, offsets, tracker, g)
          /\ pc' = "returned"
    /\ UNCHANGED <<tracker, offsets, removed, db0, ecCalls>>
    /\ UNCHANGED loopVars

(***************************************************************************)
(* The wire format.  A payload is a sequence of cells: the four bytes of   *)
(* the count, then one cell per field of each plot.                        *)
(***************************************************************************)
\* DronePlot::getDataSize()
DataSize == 5

\* The bytes of an unsigned int, in native (little-endian) order.
CountBytes(count) ==
    <<count % 256, (count \div 256) % 256, (count \div 65536) % 256,
      count \div 16777216>>

\* unsigned int count = *(unsigned int *) data.data()
ReadCount(data) ==
    data[1] + 256 * data[2] + 65536 * data[3] + 16777216 * data[4]

PlotCells(p) ==
    <<p.drone_id, p.node_id, p.timestamp, p.latitude, p.longitude>>

\* DronePlot::serialize appends the plot's fields to the buffer; size is the
\* number of cells it appends, DataSize unless the codec has drifted.
serialize(buf, p, size) ==
    buf \o PlotCells(p) \o [k \in 1..(size - DataSize) |-> 0]

\* A count-prefixed batch as a peer builds it.
RECURSIVE Marshall(_)
Marshall(plots) ==
    IF plots = <<>> THEN <<>>
    ELSE serialize(<<>>, Head(plots), DataSize) \o Marshall(Tail(plots))

Batch(count, plots) == CountBytes(count) \o Marshall(plots)

(***************************************************************************)
(* getAdjustedTime                                                         *)
(***************************************************************************)
secs_between_repl == 20

\* static_cast<time_t> of a float: truncation towards zero.
Truncate(num, den) ==
    IF num >= 0 THEN num \div den ELSE -((-num) \div den)

getAdjustedTime == Truncate((now - start_time) * time_mult, 2)

(***************************************************************************)
(* queueNewPlots                                                           *)
(***************************************************************************)
\* The loop over the plots from position k on.  ok is FALSE when the size
\* check after a plot threw; db then holds the flags cleared up to there.
RECURSIVE ScanLoop(_, _, _, _, _, _)
ScanLoop(db, k, marshall_data, count, ids, size) ==
    IF k > Len(db)
    THEN [ok |-> TRUE, db |-> db, data |-> marshall_data, count |-> count,
          ids |-> ids]
    ELSE LET new == isFlagSet(db[k], DBFLAG_NEW)
             data == IF new THEN serialize(marshall_data, db[k], size)
                     ELSE marshall_data
             db2 == IF new THEN [db EXCEPT ![k] = clrFlags(@, DBFLAG_NEW)]
                    ELSE db
             count2 == IF new THEN count + 1 ELSE count
             ids2 == IF new THEN Append(ids, db[k].id) ELSE ids
         IN  IF Len(data) % DataSize # 0
             THEN [ok |-> FALSE, db |-> db2, data |-> data, count |-> count2,
                   ids |-> ids2]
             ELSE ScanLoop(db2, k + 1, data, count2, ids2, size)

\* queueNewPlots without the call of clrFlags.
queueNewPlots_KeepsFlags(db, size) ==
    LET r == ScanLoop(db, 1, <<>>, 0, <<>>, size)
    IN  [ok |-> r.ok, db |-> db,
         sent |-> IF r.ok /\ r.count > 0
                  THEN <<[data |-> CountBytes(r.count) \o r.data,
                          ids |-> r.ids]>>
                  ELSE <<>>,
         count |-> IF r.ok THEN r.count ELSE 0, ids |-> r.ids]

\* queueNewPlots without the early return for count == 0.
queueNewPlots_SendsEmpty(db, size) ==
    LET r == ScanLoop(db, 1, <<>>, 0, <<>>, size)
    IN  [ok |-> r.ok, db |-> r.db,
         sent |-> IF r.ok
                  THEN <<[data |-> CountBytes(r.count) \o r.data,
                          ids |-> r.ids]>>
                  ELSE <<>>,
         count |-> r.count, ids |-> r.ids]

\* queueNewPlots up to the call of sendToAll: sent is what it hands over.
queueNewPlots(db, size) ==
    LET r == ScanLoop(db, 1, <<>>, 0, <<>>, size)
    IN  IF ~r.ok
        THEN [ok |-> FALSE, db |-> r.db, sent |-> <<>>, count |-> r.count,
              ids |-> r.ids]
        ELSE IF r.count = 0
        THEN [ok |-> TRUE, db |-> r.db, sent |-> <<>>, count |-> 0,
              ids |-> r.ids]
        ELSE [ok |-> TRUE, db |-> r.db,
              sent |-> <<[data |-> CountBytes(r.count) \o r.data,
                          ids |-> r.ids]>>,
              count |-> r.count, ids |-> r.ids]

(***************************************************************************)
(* addReplDronePlots                                                       *)
(***************************************************************************)
\* What a read past the end of the payload may yield.
GarbageCells == {0, 7}

\* The cell at position k of the payload, g past its end.
CellAt(data, k, g) == IF k <= Len(data) THEN data[k] ELSE g

\* addSingleDronePlot with latitude and longitude passed in the wrong order.
addSingleDronePlot_SwapsCoordinates(db, id, data, dptr, g) ==
    addPlot(db, id, CellAt(data, dptr + 1, g), CellAt(data, dptr + 2, g),
            CellAt(data, dptr + 3, g), CellAt(data, dptr + 5, g),
            CellAt(data, dptr + 4, g))

\* addSingleDronePlot: deserialize the DataSize cells from dptr on and add
\* the plot to the store.
addSingleDronePlot(db, id, data, dptr, g) ==
    addPlot(db, id, CellAt(data, dptr + 1, g), CellAt(data, dptr + 2, g),
            CellAt(data, dptr + 3, g), CellAt(data, dptr + 4, g),
            CellAt(data, dptr + 5, g))

\* The loop of addReplDronePlots from plot i on; dptr starts at 4.
RECURSIVE IngestLoop(_, _, _, _, _, _)
IngestLoop(db, id, data, i, count, g) ==
    IF i >= count THEN db
    ELSE IngestLoop(addSingleDronePlot(db, id + i, data, 4 + i * DataSize, g),
                    id, data, i + 1, count, g)

TooShort(data) == Len(data) < 4

\* The alignment test taken over the whole payload, count included.
Misaligned_IgnoresPrefix(data) == Len(data) % DataSize # 0

Misaligned(data) == (Len(data) - 4) % DataSize # 0

\* The loop reads plots the payload does not hold.
ReadsPastEnd(data) == 4 + ReadCount(data) * DataSize > Len(data)

addReplDronePlots(db, id, data, g) ==
    IngestLoop(db, id, data, 0, ReadCount(data), g)

(***************************************************************************)
(* What the environment provides.                                          *)
(***************************************************************************)
\* The plots the local sensor captures: fields without identity and flags.
CaptureValues ==
    {Plot(0, 1, 1, 100, 10, 20, 0), Plot(0, 1, 1, 150, 10, 21, 0)}

\* The plots of the peers' batches.
PeerPlotA == Plot(0, 1, 2, 150, 10, 20, 0)
PeerPlotB == Plot(0, 1, 3, 100, 10, 21, 0)

\* What a peer may send: well-formed batches, and payloads that are short,
\* misaligned, or whose count differs from the number of plots they hold.
InboundPayloads ==
    {Batch(1, <<PeerPlotA>>),
     Batch(2, <<PeerPlotA, PeerPlotB>>),
     <<1, 0>>,
     Batch(1, <<PeerPlotA>>) \o <<0, 0>>,
     Batch(2, <<PeerPlotB>>),
     Batch(1, <<PeerPlotB, PeerPlotA>>)}

(***************************************************************************)
(* replicate()                                                             *)
(***************************************************************************)
LoopPcs == {"loop", "handle", "timecheck", "scan", "reset", "pop"}

\* replicate() entering the loop although the address could not be bound.
Replicate_SwallowsBindFailure ==
    /\ pc = "idle"
    /\ last_repl' = 0
    /\ pc' = "loop"
    /\ err' \in {err, "bind"}
    /\ UNCHANGED <<shutdownFlag, now, start_time, time_mult, plotdb, inbound,
                   outbound, serialSize, nextId, arrivals, clearedLog,
                   lastCount, lastScanAt, ub>>
    /\ UNCHANGED ecVars

\* replicate() is entered: _last_repl = 0, then bindSvr and listenSvr, which
\* throw when the address cannot be bound.
Replicate ==
    /\ pc = "idle"
    /\ last_repl' = 0
    /\ \/ pc' = "loop" /\ err' = err
       \/ pc' = "failed" /\ err' = "bind"
    /\ UNCHANGED <<shutdownFlag, now, start_time, time_mult, plotdb, inbound,
                   outbound, serialSize, nextId, arrivals, clearedLog,
                   lastCount, lastScanAt, ub>>
    /\ UNCHANGED ecVars

\* The loop's exit returning without the call of eventual_consistency.
LoopCheck_SkipsReconciliation ==
    /\ pc = "loop"
    /\ pc' = IF shutdownFlag THEN "returned" ELSE "handle"
    /\ UNCHANGED <<plotdb, ub>>
    /\ UNCHANGED loopVars
    /\ UNCHANGED ecVars

\* while (!_shutdown)
LoopCheck ==
    /\ pc = "loop"
    /\ pc' = IF shutdownFlag THEN "ec" ELSE "handle"
    /\ UNCHANGED <<plotdb, ub>>
    /\ UNCHANGED loopVars
    /\ UNCHANGED ecVars

\* _queue.handleQueue(): services the connections; payloads that have
\* arrived from peers are put on the queue.
HandleQueue ==
    /\ pc = "handle"
    /\ \/ UNCHANGED <<inbound, arrivals>>
       \/ /\ arrivals < MaxArrivals
          /\ \E data \in InboundPayloads : inbound' = Append(inbound, data)
          /\ arrivals' = arrivals + 1
    /\ pc' = "timecheck"
    /\ UNCHANGED <<shutdownFlag, now, start_time, time_mult, last_repl,
                   plotdb, outbound, serialSize, nextId, clearedLog,
                   lastCount, lastScanAt, err, ub>>
    /\ UNCHANGED ecVars

\* The interval test with >= in place of >.
TimeCheck_AtLeast ==
    /\ pc = "timecheck"
    /\ IF getAdjustedTime - last_repl >= secs_between_repl
       THEN pc' = "scan" /\ lastScanAt' = getAdjustedTime
       ELSE pc' = "pop" /\ lastScanAt' = lastScanAt
    /\ UNCHANGED <<shutdownFlag, now, start_time, time_mult, last_repl,
                   plotdb, inbound, outbound, serialSize, nextId, arrivals,
                   clearedLog, lastCount, err, ub>>
    /\ UNCHANGED ecVars

\* if (getAdjustedTime() - _last_repl > secs_between_repl)
TimeCheck ==
    /\ pc = "timecheck"
    /\ IF getAdjustedTime - last_repl > secs_between_repl
       THEN pc' = "scan" /\ lastScanAt' = getAdjustedTime
       ELSE pc' = "pop" /\ lastScanAt' = lastScanAt
    /\ UNCHANGED <<shutdownFlag, now, start_time, time_mult, last_repl,
                   plotdb, inbound, outbound, serialSize, nextId, arrivals,
                   clearedLog, lastCount, err, ub>>
    /\ UNCHANGED ecVars

\* queueNewPlots()
QueueNewPlots ==
    /\ pc = "scan"
    /\ LET r == queueNewPlots(plotdb, serialSize)
       IN  /\ plotdb' = r.db
           /\ clearedLog' = clearedLog \o r.ids
           /\ outbound' = outbound \o r.sent
           /\ IF r.ok
              THEN pc' = "reset" /\ lastCount' = r.count /\ err' = err
              ELSE pc' = "failed" /\ lastCount' = lastCount
                   /\ err' = "marshalling"
    /\ UNCHANGED <<shutdownFlag, now, start_time, time_mult, last_repl,
                   inbound, serialSize, nextId, arrivals, lastScanAt, ub>>
    /\ UNCHANGED ecVars

\* _last_repl = getAdjustedTime()
SetLastRepl ==
    /\ pc = "reset"
    /\ last_repl' = getAdjustedTime
    /\ pc' = "pop"
    /\ UNCHANGED <<shutdownFlag, now, start_time, time_mult, plotdb, inbound,
                   outbound, serialSize, nextId, arrivals, clearedLog,
                   lastCount, lastScanAt, err, ub>>
    /\ UNCHANGED ecVars

\* while (_queue.pop(sid, data)) addReplDronePlots(data); one turn of it.
\* When pop finds nothing the iteration ends with usleep(1000).
Pop ==
    /\ pc = "pop"
    /\ \/ /\ inbound = <<>>
          /\ pc' = "loop"
          /\ UNCHANGED <<inbound, plotdb, nextId, err, ub>>
       \/ /\ inbound # <<>>
          /\ inbound' = Tail(inbound)
          /\ LET data == Head(inbound)
             IN  \/ /\ TooShort(data)
                    /\ pc' = "failed" /\ err' = "truncated"
                    /\ UNCHANGED <<plotdb, nextId, ub>>
                 \/ /\ ~TooShort(data) /\ Misaligned(data)
                    /\ pc' = "failed" /\ err' = "misaligned"
                    /\ UNCHANGED <<plotdb, nextId, ub>>
                 \/ /\ ~TooShort(data) /\ ~Misaligned(data)
                    /\ ~ReadsPastEnd(data)
                    /\ plotdb' = addReplDronePlots(plotdb, nextId + 1, data, 0)
                    /\ nextId' = nextId + ReadCount(data)
                    /\ pc' = "pop"
                    /\ UNCHANGED <<err, ub>>
                 \/ \* the count exceeds the plots held: the reads past the
                    \* end of the payload fault
                    /\ ~TooShort(data) /\ ~Misaligned(data)
                    /\ ReadsPastEnd(data)
                    /\ ub' = ub \cup {"addReplDronePlots: read past the end"}
                    /\ pc' = "crashed"
                    /\ UNCHANGED <<plotdb, nextId, err>>
                 \/ \* ... or yield whatever the memory holds
                    /\ ~TooShort(data) /\ ~Misaligned(data)
                    /\ ReadsPastEnd(data)
                    /\ ub' = ub \cup {"addReplDronePlots: read past the end"}
                    /\ \E g \in GarbageCells :
                          plotdb' = addReplDronePlots(plotdb, nextId + 1,
                                                      data, g)
                    /\ nextId' = nextId + ReadCount(data)
                    /\ pc' = "pop"
                    /\ err' = err
    /\ UNCHANGED <<shutdownFlag, now, start_time, time_mult, last_repl,
                   outbound, serialSize, arrivals, clearedLog, lastCount,
                   lastScanAt>>
    /\ UNCHANGED ecVars

\* shutdown(), called from another thread
Shutdown ==
    /\ pc \notin {"returned", "crashed", "failed"}
    /\ ~shutdownFlag
    /\ shutdownFlag' = TRUE
    /\ UNCHANGED <<pc, now, start_time, time_mult, last_repl, plotdb,
                   inbound, outbound, serialSize, nextId, arrivals,
                   clearedLog, lastCount, lastScanAt, err, ub>>
    /\ UNCHANGED ecVars

\* The wall clock advances.  The server reads it at the interval test and
\* after a scan only, so it is moved right before these two reads: an advance
\* anywhere else shows at the next read in the same way.
Tick ==
    /\ pc \in {"timecheck", "reset"}
    /\ \E d \in TickSteps :
          /\ now + d <= MaxNow
          /\ now' = now + d
    /\ UNCHANGED <<pc, shutdownFlag, start_time, time_mult, last_repl,
                   plotdb, inbound, outbound, serialSize, nextId, arrivals,
                   clearedLog, lastCount, lastScanAt, err, ub>>
    /\ UNCHANGED ecVars

\* The application adds a captured plot to the store (DronePlotDB::addPlot).
LocalCapture ==
    /\ pc \in LoopPcs \cup {"idle"}
    /\ Len(plotdb) < MaxCapture
    /\ \E v \in CaptureValues :
          plotdb' = addPlot(plotdb, nextId + 1, v.drone_id, v.node_id,
                            v.timestamp, v.latitude, v.longitude)
    /\ nextId' = nextId + 1
    /\ UNCHANGED <<pc, shutdownFlag, now, start_time, time_mult, last_repl,
                   inbound, outbound, serialSize, arrivals, clearedLog,
                   lastCount, lastScanAt, err, ub>>
    /\ UNCHANGED ecVars

Init ==
    /\ pc = "idle"
    /\ shutdownFlag = FALSE
    /\ now = 0
    /\ start_time \in StartTimes
    /\ time_mult \in TimeMults
    /\ last_repl = 0
    /\ plotdb = <<>>
    /\ inbound = <<>>
    /\ outbound = <<>>
    /\ serialSize \in {DataSize, DataSize + 1}
    /\ nextId = 0
    /\ arrivals = 0
    /\ tracker = <<>>
    /\ offsets = <<>>
    /\ db0 = <<>>
    /\ removed = <<>>
    /\ ecCalls = 0
    /\ ub = {}
    /\ clearedLog = <<>>
    /\ lastCount = 0
    /\ lastScanAt = -1
    /\ err = ""

Next ==
    \/ Replicate
    \/ LoopCheck
    \/ HandleQueue
    \/ TimeCheck
    \/ QueueNewPlots
    \/ SetLastRepl
    \/ Pop
    \/ Shutdown
    \/ Tick
    \/ LocalCapture
    \/ EcSort
    \/ EcNodeCount
    \/ EcGenerateOffsets
    \/ EcCorrectTimestamps

Spec == Init /\ [][Next]_vars

(***************************************************************************)
(* The same under fair scheduling: the thread that runs replicate() takes  *)
(* its next step whenever it has one, and the wall clock keeps advancing.  *)
(***************************************************************************)
ServerStep ==
    \/ Replicate
    \/ LoopCheck
    \/ HandleQueue
    \/ TimeCheck
    \/ QueueNewPlots
    \/ SetLastRepl
    \/ Pop
    \/ EcSort
    \/ EcNodeCount
    \/ EcGenerateOffsets
    \/ EcCorrectTimestamps

\* The server constructed when replicate() is called, with a codec that
\* keeps the plot size.
InitLive == Init /\ start_time = 0 /\ serialSize = DataSize

SpecLive == InitLive /\ [][Next]_vars /\ WF_vars(ServerStep) /\ SF_vars(Tick)

(***************************************************************************)
(* Reconciliation started from any store of at most MaxStore plots.        *)
(***************************************************************************)
PlotValues ==
    {Plot(0, 1, n, t, c[1], c[2], f) :
        n \in NodeIds, t \in Timestamps, c \in Coords, f \in {0}}

\* The same, of the two highest node ids only.
PlotValues2 == {p \in PlotValues : p.node_id \in {2, 3}}

StoresOfLen(n, values) ==
    {[k \in 1..n |-> [s[k] EXCEPT !.id = k]] : s \in [1..n -> values]}

InitStore(lens, values) ==
    /\ pc = "ec"
    /\ shutdownFlag = TRUE
    /\ now = 0
    /\ start_time = 0
    /\ time_mult = 2
    /\ last_repl = 0
    /\ \E n \in lens : plotdb \in StoresOfLen(n, values)
    /\ inbound = <<>>
    /\ outbound = <<>>
    /\ serialSize = DataSize
    /\ nextId = 0
    /\ arrivals = 0
    /\ tracker = <<>>
    /\ offsets = <<>>
    /\ db0 = <<>>
    /\ removed = <<>>
    /\ ecCalls = 0
    /\ ub = {}
    /\ clearedLog = <<>>
    /\ lastCount = 0
    /\ lastScanAt = -1
    /\ err = ""

InitEC == InitStore(0..MaxStore, PlotValues)

\* Stores of DupStore plots of two nodes, and the empty store.
InitDup == InitStore({0, DupStore}, PlotValues2)

NextEC ==
    \/ EcSort
    \/ EcNodeCount
    \/ EcGenerateOffsets
    \/ EcCorrectTimestamps

SpecEC == InitEC /\ [][NextEC]_vars

SpecDup == InitDup /\ [][NextEC]_vars

(***************************************************************************)
(* Ingestion of one payload of any length up to MaxRecords plots and one   *)
(* cell more, with any count up to MaxRecords + 1, into a store that is    *)
(* empty or holds one plot.                                                *)
(***************************************************************************)
WirePayload(len, count) ==
    [k \in 1..len |->
        IF k = 1 THEN count
        ELSE IF k <= 4 THEN 0
        ELSE PlotCells(PeerPlotA)[((k - 5) % DataSize) + 1]]

WirePayloads ==
    {WirePayload(len, count) :
        len \in 0..(4 + MaxRecords * DataSize + 1),
        count \in 0..(MaxRecords + 1)}

InitWire ==
    /\ pc = "pop"
    /\ shutdownFlag = FALSE
    /\ now = 0
    /\ start_time = 0
    /\ time_mult = 2
    /\ last_repl = 0
    /\ plotdb \in {<<>>, addPlot(<<>>, 1, 1, 1, 100, 10, 20)}
    /\ \E data \in WirePayloads : inbound = <<data>>
    /\ outbound = <<>>
    /\ serialSize = DataSize
    /\ nextId = Len(plotdb)
    /\ arrivals = 1
    /\ tracker = <<>>
    /\ offsets = <<>>
    /\ db0 = <<>>
    /\ removed = <<>>
    /\ ecCalls = 0
    /\ ub = {}
    /\ clearedLog = <<>>
    /\ lastCount = 0
    /\ lastScanAt = -1
    /\ err = ""

NextWire == Pop

SpecWire == InitWire /\ [][NextWire]_vars

(***************************************************************************)
(* Vocabulary of the properties of reconciliation.                         *)
(***************************************************************************)
NodesOf(db) == {db[i].node_id : i \in 1..Len(db)}

IdsOf(db) == {db[i].id : i \in 1..Len(db)}

MaxOf(S) == CHOOSE m \in S : \A x \in S : x <= m

PlotById(db, id) == CHOOSE p \in Range(db) : p.id = id

SameSpot(p, q) == p.latitude = q.latitude /\ p.longitude = q.longitude

PositionIn(s, x) == CHOOSE k \in 1..Len(s) : s[k] = x

\* The pairs (plot of node n, plot of node ref) of db at the same coordinates.
SpotPairs(db, n, ref) ==
    {x \in Range(db) \X Range(db) :
        x[1].node_id = n /\ x[2].node_id = ref /\ SameSpot(x[1], x[2])}

EcStarted == ecCalls > 0

\* C3: a store of exactly two plots at the same coordinates, one of a
\* non-reference node at t1 and one of the reference node at t2: reconciliation
\* computes the offset t2 - t1, erases the reference plot and leaves the other
\* plot alone, with timestamp t2, whatever t1 and t2 are.
C3_TwoPlotOffset ==
    (/\ pc = "returned"
     /\ Len(db0) = 2
     /\ db0[1].node_id # db0[2].node_id
     /\ SameSpot(db0[1], db0[2]))
    => LET ref == MaxOf(NodesOf(db0))
           r == CHOOSE p \in Range(db0) : p.node_id = ref
           c == CHOOSE p \in Range(db0) : p.node_id # ref
       IN  /\ offsets = <<r.timestamp - c.timestamp>>
           /\ removed = << <<r>> >>
           /\ Len(plotdb) = 1
           /\ plotdb[1].id = c.id
           /\ plotdb[1].timestamp = r.timestamp

\* C4: when every non-reference node n has plots at the coordinates of
\* reference plots and all such pairs differ by one skew d_n (of either sign),
\* reconciliation leaves every surviving plot of n at its original timestamp
\* plus d_n and every reference plot at its original timestamp.
C4_ReferenceFrame ==
    (pc = "returned" /\ db0 # <<>>)
    => LET ref == MaxOf(NodesOf(db0))
           skew(x) == x[2].timestamp - x[1].timestamp
           skewOf(n) == skew(CHOOSE x \in SpotPairs(db0, n, ref) : TRUE)
           constantSkew ==
               \A n \in NodesOf(db0) \ {ref} :
                  /\ SpotPairs(db0, n, ref) # {}
                  /\ \A x, y \in SpotPairs(db0, n, ref) : skew(x) = skew(y)
       IN  constantSkew
           => \A p \in Range(plotdb) :
                 p.timestamp = PlotById(db0, p.id).timestamp
                               + (IF p.node_id = ref THEN 0
                                  ELSE skewOf(p.node_id))

\* A non-reference node n with three plots, two of which are at the
\* coordinates of two distinct reference plots.
ThreeWithTwoMatches(db, n, ref) ==
    /\ Cardinality({i \in 1..Len(db) : db[i].node_id = n}) = 3
    /\ \E x, y \in SpotPairs(db, n, ref) : x[1] # y[1] /\ x[2] # y[2]

\* C5: reconciliation erases at most one plot per non-reference node, only
\* plots of the reference node, and exactly one for a non-reference node with
\* three plots of which two match two distinct reference plots.
C5_OneDuplicatePerNode ==
    (pc = "returned" /\ db0 # <<>>)
    => LET ref == MaxOf(NodesOf(db0))
           gone == IdsOf(db0) \ IdsOf(plotdb)
       IN  /\ Cardinality(gone) <= Cardinality(NodesOf(db0)) - 1
           /\ \A k \in 1..Len(removed) : Len(removed[k]) <= 1
           /\ \A g \in gone : PlotById(db0, g).node_id = ref
           /\ \A n \in NodesOf(db0) \ {ref} :
                 ThreeWithTwoMatches(db0, n, ref)
                 => Len(removed[PositionIn(tracker, n)]) = 1

\* C6: a non-reference node none of whose plots is at the coordinates of a
\* reference plot gets offset 0, has no plot erased on its behalf and keeps
\* all its plots with their timestamps.
C6_NoMatchSafety ==
    (pc = "returned" /\ db0 # <<>>)
    => LET ref == MaxOf(NodesOf(db0))
       IN  \A n \in NodesOf(db0) \ {ref} :
              SpotPairs(db0, n, ref) = {}
              => /\ offsets[PositionIn(tracker, n)] = 0
                 /\ removed[PositionIn(tracker, n)] = <<>>
                 /\ \A q \in Range(db0) :
                       q.node_id = n => q \in Range(plotdb)

\* Reconciliation has returned from a store in which one node had no match
\* while another one had an offset of 50 computed and a plot erased.
C6_Witness ==
    /\ pc = "returned"
    /\ Len(tracker) = 3
    /\ SpotPairs(db0, tracker[1], tracker[3]) = {}
    /\ offsets = <<0, 50>>
    /\ Len(plotdb) = 2

\* C7: from its call on, reconciliation adds no plot and changes no
\* drone_id, node_id, latitude or longitude; when it returns, every reference
\* plot has its original timestamp and every other surviving plot its
\* original timestamp plus the offsets entry of its own node.
C7_Frame ==
    (EcStarted /\ db0 # <<>>)
    => LET ref == MaxOf(NodesOf(db0))
       IN  /\ IdsOf(plotdb) \subseteq IdsOf(db0)
           /\ Cardinality(IdsOf(plotdb)) = Len(plotdb)
           /\ \A p \in Range(plotdb) :
                 LET q == PlotById(db0, p.id)
                 IN  /\ p.drone_id = q.drone_id
                     /\ p.node_id = q.node_id
                     /\ p.latitude = q.latitude
                     /\ p.longitude = q.longitude
                     /\ p.timestamp =
                           q.timestamp
                           + (IF pc = "returned" /\ p.node_id # ref
                              THEN offsets[PositionIn(tracker, p.node_id)]
                              ELSE 0)

\* Reconciliation has returned after moving a plot of node 2 by 50 and
\* leaving the plot of node 1 where it was.
C7_Witness ==
    /\ pc = "returned"
    /\ offsets = <<0, 50>>
    /\ \E p \in Range(plotdb) :
          p.node_id = 2 /\ p.timestamp = PlotById(db0, p.id).timestamp + 50
    /\ \E p \in Range(plotdb) :
          p.node_id = 1 /\ p.timestamp = PlotById(db0, p.id).timestamp

\* tracker and offsets as C8 describes them.
NodeSetAndOffsetTable ==
    /\ Len(offsets) = Len(tracker) - 1
    /\ Range(tracker) = NodesOf(db0)
    /\ \A i, j \in 1..Len(tracker) : i < j => tracker[i] < tracker[j]
    /\ \E m \in Range(tracker) :
          m = tracker[Len(tracker)] /\ \A x \in NodesOf(db0) : x <= m
    /\ \A i \in 1..Len(offsets) :
          IF removed[i] = <<>> THEN offsets[i] = 0
          ELSE \E c \in Range(db0) :
                  /\ c.node_id = tracker[i]
                  /\ SameSpot(c, removed[i][1])
                  /\ offsets[i] = removed[i][1].timestamp - c.timestamp

\* C8 as stated: after generate_offsets, tracker is the ascending sequence of
\* the distinct node ids of the store, its last element is the reference
\* node, and offsets has |tracker| - 1 entries, entry i being the offset
\* computed for the i-th node of tracker.
C8_Original == pc \in {"ec_correct", "returned"} => NodeSetAndOffsetTable

\* C8 as amended: the same, for a store that is not empty.
C8_NodeSetAndOffsets ==
    (pc \in {"ec_correct", "returned"} /\ db0 # <<>>) => NodeSetAndOffsetTable

\* generate_offsets has run on a store of three nodes met in descending
\* order and has computed different offsets for the two non-reference nodes.
C8_Witness ==
    /\ pc = "ec_correct"
    /\ db0 # <<>>
    /\ db0[1].node_id = 3
    /\ tracker = <<1, 2, 3>>
    /\ offsets = <<50, 0>>

(***************************************************************************)
(* Properties of the replication loop.                                     *)
(***************************************************************************)
EcPcs == {"ec", "ec_count", "ec_offsets", "ec_correct"}

Ended == {"returned", "crashed", "failed"}

\* The identities of the plots in the payloads handed to sendToAll.
SentIds(k) == Range(outbound[k].ids)

AllSentIds == UNION {SentIds(k) : k \in 1..Len(outbound)}

\* C1: eventual_consistency is called at most once, only from the loop's
\* exit test with the shutdown flag seen set, and exactly once by the time
\* replicate() returns; from the moment the loop has exited nothing is handed
\* to sendToAll, nothing is popped from the queue and ingested.
C1_ReconcileOnceAtExit ==
    /\ [](/\ ecCalls <= 1
          /\ (pc = "returned" => ecCalls = 1)
          /\ (pc \in EcPcs \cup {"returned"} => shutdownFlag /\ err = "")
          /\ (pc \in LoopPcs \cup {"idle", "ec", "failed"} => ecCalls = 0))
    /\ [][/\ (pc' = "ec" /\ pc # "ec") => (pc = "loop" /\ shutdownFlag)
          /\ (pc \in EcPcs \cup Ended)
             => (/\ outbound' = outbound
                 /\ inbound' = inbound
                 /\ Len(plotdb') <= Len(plotdb)
                 /\ pc' \notin LoopPcs)
          /\ pc \in EcPcs => pc' # "failed"]_vars

\* replicate() has returned after a broadcast and an ingestion.
C1_Witness ==
    /\ pc = "returned"
    /\ ecCalls = 1
    /\ Len(outbound) >= 1
    /\ arrivals = 1 /\ inbound = <<>>
    /\ Len(db0) >= 2

\* C2: once shutdown() has been called, replicate() goes on to reconciliation
\* and returns: unless an exception ended it, it ends only by returning.
C2_ShutdownStops ==
    (shutdownFlag /\ pc \in Ended /\ err = "") => pc = "returned"

\* C9: a scan that completes clears DBFLAG_NEW of exactly the plots that had
\* it, changes nothing else in the store, hands over (when there is any such
\* plot) one payload holding exactly those plots in store order behind their
\* count, and returns their number.
C9_ScanClearsWhatItSends ==
    [][(pc = "scan" /\ pc' = "reset")
       => LET new == {k \in 1..Len(plotdb) : isFlagSet(plotdb[k], DBFLAG_NEW)}
              batch == outbound'[Len(outbound')]
              included == IF new = {} THEN {} ELSE Range(batch.ids)
          IN  /\ Len(plotdb') = Len(plotdb)
              /\ \A k \in 1..Len(plotdb) :
                    IF k \in new
                    THEN /\ ~isFlagSet(plotdb'[k], DBFLAG_NEW)
                         /\ plotdb'[k] = [plotdb[k] EXCEPT !.flags = 0]
                         /\ plotdb[k].id \in included
                    ELSE /\ plotdb'[k] = plotdb[k]
                         /\ plotdb[k].id \notin included
              /\ lastCount' = Cardinality(new)
              /\ IF new = {} THEN outbound' = outbound
                 ELSE /\ Len(outbound') = Len(outbound) + 1
                      /\ SubSeq(outbound', 1, Len(outbound)) = outbound
                      /\ Len(batch.ids) = Cardinality(new)
                      /\ Len(batch.data) = 4 + DataSize * Cardinality(new)
                      /\ ReadCount(batch.data) = Cardinality(new)
                      /\ \A i \in 1..Len(batch.ids) :
                            LET p == PlotById(plotdb, batch.ids[i])
                            IN  /\ isFlagSet(p, DBFLAG_NEW)
                                /\ SubSeq(batch.data, 5 + DataSize * (i - 1),
                                          4 + DataSize * i) = PlotCells(p)
                                /\ \A j \in 1..(i - 1) :
                                      PositionIn(plotdb, PlotById(plotdb, batch.ids[j]))
                                      < PositionIn(plotdb, p)]_vars

\* A second scan has completed: it sent one plot and left alone the plot
\* the first scan had sent.
C9_Witness ==
    /\ pc = "reset"
    /\ Len(outbound) = 2
    /\ lastCount = 1
    /\ Len(plotdb) = 2

\* C10: no plot has DBFLAG_NEW cleared twice, every plot that had it cleared
\* is in a payload handed to sendToAll, and no plot is in two payloads; this
\* also when a scan ends with the marshalling error.
C10_ClearedOnlyWhenSent ==
    /\ \A i, j \in 1..Len(clearedLog) : i # j => clearedLog[i] # clearedLog[j]
    /\ Range(clearedLog) \subseteq AllSentIds
    /\ \A i, j \in 1..Len(outbound) : i # j => SentIds(i) \cap SentIds(j) = {}

\* The positions of the plots of db that have DBFLAG_NEW set, ascending.
PendingOf(db) == {k \in 1..Len(db) : isFlagSet(db[k], DBFLAG_NEW)}

\* C11: a scan of a store none of whose plots has DBFLAG_NEW set (the empty
\* store included) completes, returns 0, hands nothing to sendToAll and
\* leaves the store as it was.
C11_NothingPendingNothingSent ==
    [][(pc = "scan" /\ pc' # "scan" /\ PendingOf(plotdb) = {})
       => /\ pc' = "reset"
          /\ lastCount' = 0
          /\ outbound' = outbound
          /\ plotdb' = plotdb
          /\ err' = ""]_vars

\* A scan has just returned 0 on a store of plots that an earlier scan had
\* sent.
C11_Witness ==
    /\ pc = "reset"
    /\ lastCount = 0
    /\ Len(outbound) = 1
    /\ plotdb # <<>>
    /\ PendingOf(plotdb) = {}
    /\ Len(clearedLog) = Len(plotdb)

\* The observation a plot carries.
Observation(p) ==
    <<p.drone_id, p.node_id, p.timestamp, p.latitude, p.longitude>>

\* C12: the payload a completed scan hands to sendToAll for a non-empty
\* sequence of pending plots is accepted by a peer's addReplDronePlots, which
\* appends to the peer's store the observations of exactly those plots in the
\* same order, as many as the count prefix and the scan's return value say.
C12_BatchRoundTrip ==
    [][(pc = "scan" /\ pc' = "reset" /\ PendingOf(plotdb) # {})
       => LET data == outbound'[Len(outbound')].data
              sentObs == [k \in 1..Len(SelectSeq(plotdb,
                                 LAMBDA p : isFlagSet(p, DBFLAG_NEW))) |->
                            Observation(SelectSeq(plotdb,
                                 LAMBDA p : isFlagSet(p, DBFLAG_NEW))[k])]
          IN  /\ Len(outbound') = Len(outbound) + 1
              /\ ~TooShort(data) /\ ~Misaligned(data) /\ ~ReadsPastEnd(data)
              /\ \A peer \in {<<>>, plotdb} :
                    LET got == addReplDronePlots(peer, Len(peer) + 100, data, 0)
                        added == SubSeq(got, Len(peer) + 1, Len(got))
                    IN  /\ SubSeq(got, 1, Len(peer)) = peer
                        /\ [k \in 1..Len(added) |-> Observation(added[k])]
                           = sentObs
                        /\ Len(added) = ReadCount(data)
                        /\ Len(added) = lastCount'
                        /\ \A k \in 1..Len(added) :
                              isFlagSet(added[k], DBFLAG_NEW)]_vars

\* A scan has just sent a batch of two plots with different observations.
C12_Witness ==
    /\ pc = "reset"
    /\ lastCount = 2
    /\ outbound # <<>>
    /\ ReadCount(outbound[Len(outbound)].data) = 2
    /\ Len(plotdb) >= 2
    /\ Observation(plotdb[1]) # Observation(plotdb[2])

\* The step of the pop loop that takes a payload from the queue.
PopsPayload == pc = "pop" /\ inbound # <<>> /\ inbound' = Tail(inbound)

\* C13: a payload that addReplDronePlots accepts without error holds a whole
\* number of plots after its count, its count is that number, and ingestion
\* appends exactly that many plots without a read past the payload's end.
C13_AcceptedBatchesAreExact ==
    [][(PopsPayload /\ pc' = "pop")
       => LET data == Head(inbound)
              present == (Len(data) - 4) \div DataSize
          IN  /\ Len(data) >= 4
              /\ (Len(data) - 4) % DataSize = 0
              /\ ReadCount(data) = present
              /\ Len(plotdb') = Len(plotdb) + present
              /\ ub' = ub]_vars

\* C14: a payload of fewer than 4 bytes ends replicate() with the truncated
\* batch error, a payload of 4 bytes or more whose length less 4 is not a
\* multiple of the plot size ends it with the misaligned batch error, no
\* other payload raises either error, and a rejected payload leaves the
\* store as it was.
C14_RejectsShortAndMisaligned ==
    [][PopsPayload
       => LET len == Len(Head(inbound))
          IN  /\ err' = "truncated" <=> len < 4
              /\ err' = "misaligned" <=> (len >= 4 /\ (len - 4) % DataSize # 0)
              /\ err' # "" => (pc' = "failed" /\ plotdb' = plotdb
                               /\ nextId' = nextId)]_vars

\* A misaligned payload that holds a whole plot has been rejected by a node
\* whose store holds a plot.
C14_Witness ==
    /\ pc = "failed"
    /\ err = "misaligned"
    /\ inbound = <<>>
    /\ Len(plotdb) = 1
    /\ arrivals = 1

\* C15: a bind failure, a truncated or misaligned payload and a size
\* violation during a scan each end replicate() with the exception, and after
\* that nothing more happens: no loop step, no payload handed to sendToAll,
\* none popped or ingested, no reconciliation.  After a bind failure the
\* loop has not been entered at all.
C15_FatalErrorsEndReplicate ==
    /\ [](/\ pc = "failed" <=> err # ""
          /\ err = "bind" => (/\ arrivals = 0 /\ lastScanAt = -1
                              /\ outbound = <<>> /\ clearedLog = <<>>
                              /\ ecCalls = 0))
    /\ [][/\ (pc = "idle" /\ pc' \notin {"idle", "failed"}) => err' = ""
          /\ (PopsPayload /\ (\/ Len(Head(inbound)) < 4
                               \/ (Len(Head(inbound)) - 4) % DataSize # 0))
             => pc' = "failed"
          /\ (/\ pc = "scan" /\ pc' # "scan"
              /\ PendingOf(plotdb) # {} /\ serialSize % DataSize # 0)
             => (pc' = "failed" /\ err' = "marshalling")
          /\ pc = "failed"
             => (/\ pc' = "failed" /\ err' = err
                 /\ outbound' = outbound /\ inbound' = inbound
                 /\ plotdb' = plotdb /\ last_repl' = last_repl
                 /\ lastScanAt' = lastScanAt /\ ecCalls' = ecCalls)]_vars

\* replicate() has ended with the truncated batch error after a broadcast.
C15_Witness ==
    /\ pc = "failed"
    /\ err = "truncated"
    /\ Len(outbound) >= 1
    /\ ecCalls = 0

\* The positions after i of the plots of node ref at the coordinates of the
\* plot at i.
LaterMatches(db, i, ref) ==
    {j \in (i + 1)..Len(db) : db[j].node_id = ref /\ SameSpot(db[j], db[i])}

\* The positions of the plots of node n that have a later match.
Candidates(db, n, ref) ==
    {i \in 1..Len(db) : db[i].node_id = n /\ LaterMatches(db, i, ref) # {}}

MinOf(S) == CHOOSE m \in S : \A x \in S : m <= x

\* What C16 says offset_aux(n, ref) does to the store db.
EarliestMatch(db, n, ref) ==
    IF Candidates(db, n, ref) = {}
    THEN [offset |-> 0, db |-> db, erased |-> <<>>]
    ELSE LET c == MinOf(Candidates(db, n, ref))
             r == MinOf(LaterMatches(db, c, ref))
         IN  [offset |-> db[r].timestamp - db[c].timestamp,
              db |-> [k \in 1..(Len(db) - 1) |->
                         IF k < r THEN db[k] ELSE db[k + 1]],
              erased |-> <<db[r]>>]

\* C16: on the sorted store, offset_aux(n, ref) takes the earliest plot c of
\* node n that has a later plot of node ref at the same coordinates and the
\* earliest such later plot r, returns r.timestamp - c.timestamp and erases r
\* and nothing else; without such a pair it returns 0 and erases nothing.
\* The first call generate_offsets makes has that result.
C16_EarliestCandidateEarliestMatch ==
    [][(pc = "ec_offsets" /\ pc' = "ec_correct" /\ tracker # <<>>)
       => LET ref == tracker[Len(tracker)]
          IN  /\ \A n \in NodeIds \ {ref} :
                    offset_aux(plotdb, n, ref) = EarliestMatch(plotdb, n, ref)
              /\ Len(tracker) >= 2
                 => /\ offsets'[1] = EarliestMatch(plotdb, tracker[1], ref).offset
                    /\ removed'[1] = EarliestMatch(plotdb, tracker[1], ref).erased
              /\ Len(tracker) = 2
                 => plotdb' = EarliestMatch(plotdb, tracker[1], ref).db]_vars

\* generate_offsets has skipped the first plot of node 1, which has no match,
\* and has taken the offset from its second plot and the reference plot
\* after it, which it erased.
C16_Witness ==
    /\ pc = "ec_correct"
    /\ tracker = <<1, 3>>
    /\ Len(db0) = 3
    /\ offsets = <<50>>
    /\ Len(plotdb) = 2
    /\ LaterMatches(sortByTime(db0), 1, 3) = {}
    /\ sortByTime(db0)[1].node_id = 1
    /\ sortByTime(db0)[2].node_id = 1

\* C17: replicate() starts with _last_repl = 0; an iteration scans exactly
\* when the adjusted time less _last_repl exceeds 20 at its interval test;
\* a scan starts in no other way; after a scan that returns, with or without
\* plots found, _last_repl becomes the adjusted time, and it changes nowhere
\* else.  So no interval test passes at an adjusted time of 20 or less, and
\* two consecutive passing tests are more than 20 apart.
C17_BroadcastCadence ==
    /\ [](/\ lastScanAt # -1 => lastScanAt > 20
          /\ (outbound # <<>> \/ clearedLog # <<>>) => lastScanAt # -1
          /\ pc \in {"scan", "reset"} => lastScanAt # -1)
    /\ [][/\ (pc = "idle" /\ pc' # "idle") => last_repl' = 0
          /\ (pc = "timecheck" /\ pc' # "timecheck")
             => /\ pc' \in {"scan", "pop"}
                /\ pc' = "scan" <=> getAdjustedTime - last_repl > 20
                /\ (pc' = "scan" /\ lastScanAt # -1)
                   => getAdjustedTime - lastScanAt > 20
          /\ (pc' = "scan" /\ pc # "scan") => pc = "timecheck"
          /\ (pc = "scan" /\ pc' # "scan") => pc' \in {"reset", "failed"}
          /\ (pc = "reset" /\ pc' # "reset")
             => (pc' = "pop" /\ last_repl' = getAdjustedTime)
          /\ last_repl' # last_repl => pc \in {"idle", "reset"}]_vars

\* A second interval test has passed, 21 simulated seconds after the scan
\* before it, which had found nothing to send.
C17_Witness ==
    /\ pc = "scan"
    /\ last_repl = 21
    /\ lastScanAt = 42
    /\ lastCount = 0
    /\ outbound = <<>>

\* The plot with identity i is in the store with DBFLAG_NEW set while the
\* loop runs.
PendingWhileRunning(i) ==
    /\ pc \in LoopPcs
    /\ \E k \in PendingOf(plotdb) : plotdb[k].id = i

\* The wall clock of the model has reached its last second.
ClockExhausted == \A d \in TickSteps : now + d > MaxNow

\* C18: under fair scheduling, a plot that is in the store with DBFLAG_NEW
\* set while the loop runs is eventually in a payload handed to sendToAll,
\* whatever the time multiplier and whenever shutdown() is called.  Runs in
\* which replicate() ends by an exception or a fault, and runs that reach the
\* last second of the model's wall clock, are not held against it.
C18_EventualBroadcast ==
    \A i \in 1..(MaxCapture + 2) :
        PendingWhileRunning(i)
        ~> (i \in AllSentIds \/ ClockExhausted \/ pc \in {"failed", "crashed"})

\* C19: whatever the store is when the loop stops, the empty store and a
\* store of one node's plots included, reconciliation reads tracker[size - 1]
\* only of a tracker that is not empty and offsets[i] only for i below the
\* size of offsets.
C19_ReadsInRange ==
    /\ "generate_offsets: tracker[size-1]" \notin ub
    /\ "correct_timestamps: tracker[size-1]" \notin ub
    /\ (pc = "ec_correct" /\ tracker # <<>>)
       => \A i \in OffsetReads(plotdb, tracker, tracker[Len(tracker)]) :
             i < Len(offsets)

====
